---------------------------- MODULE Spec2Model ----------------------------
(***************************************************************************)
(* Model of the recommendation service of Image-Tunes                      *)
(* (src/server/models/Product.js: schemas, recommendationService, routes). *)
(*                                                                         *)
(* Products are identified by their _id; a list of products is a sequence  *)
(* of product ids.  Scores are exact rationals kept as num/den in tenths   *)
(* (0.4 -> 4, 0.3 -> 3).  Timestamps (viewedAt, purchasedAt) are never     *)
(* read by the service and are left out of the history entries.            *)
(***************************************************************************)
EXTENDS Integers, Sequences, FiniteSets, TLC

VARIABLES users, pc, callUser, callLimit, cb, co, tr, result, resp,
          scoreIn, scoreOut

vars == <<users, pc, callUser, callLimit, cb, co, tr, result, resp,
          scoreIn, scoreOut>>

callVars == <<pc, callUser, callLimit, cb, co, tr, result>>
scoreVars == <<scoreIn, scoreOut>>

-----------------------------------------------------------------------------
(* Bounds of the model *)

\* total number of history entries (views + purchases) over all users
MaxHist == 4
\* largest limit passed to getRecommendations
MaxLimit == 3
\* longest product.tags sequence drawn for the scorer
MaxTags == 2

-----------------------------------------------------------------------------
(* Sequence helpers *)

Min(a, b) == IF a <= b THEN a ELSE b
Max(a, b) == IF a >= b THEN a ELSE b

Range(s) == { s[i] : i \in 1..Len(s) }

\* Array.prototype.includes / Set.prototype.has
Includes(s, x) == \E i \in 1..Len(s) : s[i] = x

\* Array.prototype.slice(0, n) for n >= 0
Slice(s, n) == SubSeq(s, 1, Min(n, Len(s)))

\* Array.prototype.filter(x => keep(x)).length
RECURSIVE CountIn(_, _)
CountIn(s, t) ==
  IF s = <<>> THEN 0
  ELSE (IF Includes(t, Head(s)) THEN 1 ELSE 0) + CountIn(Tail(s), t)

\* sequences over S of length at most n
SeqsUpTo(S, n) == UNION { [1..k -> S] : k \in 0..n }

-----------------------------------------------------------------------------
(* The Product collection (productSchema) and the users of the User        *)
(* collection, in the store's natural order.                                *)

ProductCollection ==
  << [_id |-> "p1", category |-> "audio", price |-> 50,
      hasTags |-> TRUE, tags |-> <<"rock">>, reviewCount |-> 2, rating |-> 4],
     [_id |-> "p2", category |-> "video", price |-> 20,
      hasTags |-> TRUE, tags |-> <<"jazz", "rock">>, reviewCount |-> 9, rating |-> 3],
     [_id |-> "p3", category |-> "audio", price |-> 2000,
      hasTags |-> TRUE, tags |-> <<>>, reviewCount |-> 9, rating |-> 5] >>

ProductIds == { ProductCollection[i]._id : i \in 1..Len(ProductCollection) }

UserOrder == <<"u1", "u2">>
UserIds == Range(UserOrder)

\* the user whose requests for recommendations and preference updates are
\* followed; u2 is the neighbour whose history the collaborative strategy reads
Me == "u1"
\* a user id that no document of the User collection has
Ghost == "ghost"
\* getRecommendations called without a userId (falsy)
NoUser == ""

\* the userId arguments of getRecommendations
Callers == {Me, Ghost, NoUser}

-----------------------------------------------------------------------------
(* Preferences objects.  `has` names the sub-fields that are present.       *)

Prefs(has, cats, lo, hi, tags) ==
  [has |-> has, categories |-> cats, priceRange |-> [min |-> lo, max |-> hi],
   tags |-> tags]

\* userSchema defaults: empty arrays, priceRange {min: 0, max: 1000}
DefaultPrefs == Prefs({"categories", "priceRange", "tags"}, <<>>, 0, 1000, <<>>)

\* weights of the three criteria, in tenths
CategoryWeight == 4
PriceWeight == 3
TagsWeight == 3

\* faulty variant: the score is divided by the sum of all three weights, whether or
\* not the criterion applies
calculateSimilarityScore_FixedMax(userPreferences, product) ==
  LET catHit == "categories" \in userPreferences.has
                /\ Includes(userPreferences.categories, product.category)
      priceHit == "priceRange" \in userPreferences.has
                  /\ product.price >= userPreferences.priceRange.min
                  /\ product.price <= userPreferences.priceRange.max
      tagsOn == "tags" \in userPreferences.has /\ product.hasTags
      matchingTags == IF tagsOn THEN CountIn(product.tags, userPreferences.tags)
                      ELSE 0
      L == Max(Len(userPreferences.tags), 1)
  IN [num |-> (IF catHit THEN CategoryWeight * L ELSE 0)
              + (IF priceHit THEN PriceWeight * L ELSE 0)
              + TagsWeight * matchingTags,
      den |-> (CategoryWeight + PriceWeight + TagsWeight) * L]

\* calculateSimilarityScore: the score as [num, den], den > 0
calculateSimilarityScore(userPreferences, product) ==
  LET catOn == "categories" \in userPreferences.has
               /\ Len(userPreferences.categories) > 0
      priceOn == "priceRange" \in userPreferences.has
      tagsOn == "tags" \in userPreferences.has
                /\ Len(userPreferences.tags) > 0
                /\ product.hasTags
      catHit == catOn /\ Includes(userPreferences.categories, product.category)
      priceHit == priceOn
                  /\ product.price >= userPreferences.priceRange.min
                  /\ product.price <= userPreferences.priceRange.max
      matchingTags == IF tagsOn THEN CountIn(product.tags, userPreferences.tags)
                      ELSE 0
      L == Max(Len(userPreferences.tags), 1)
      maxScore == (IF catOn THEN CategoryWeight ELSE 0)
                  + (IF priceOn THEN PriceWeight ELSE 0)
                  + (IF tagsOn THEN TagsWeight ELSE 0)
      \* score * L, so that matchingTags / L stays an integer
      scoreL == (IF catHit THEN CategoryWeight * L ELSE 0)
                + (IF priceHit THEN PriceWeight * L ELSE 0)
                + TagsWeight * matchingTags
  IN IF maxScore > 0 THEN [num |-> scoreL, den |-> maxScore * L]
     ELSE [num |-> 0, den |-> 1]

-----------------------------------------------------------------------------
(* Specification of the scorer alone: inputs drawn from bounded sets.       *)

TagNames == {"rock", "jazz"}
CategoryNames == {"audio", "video"}

PrefSpace ==
  { Prefs(has, cats, r[1], r[2], tags) :
      has \in SUBSET {"categories", "priceRange", "tags"},
      cats \in {<<>>, <<"audio">>, <<"audio", "video">>},
      r \in {<<0, 1000>>, <<30, 60>>},
      tags \in {<<>>, <<"rock">>, <<"rock", "jazz">>} }

ProductSpace ==
  { [_id |-> "p", category |-> c, price |-> pr, hasTags |-> ht, tags |-> tg,
     reviewCount |-> 0, rating |-> 0] :
      c \in CategoryNames, pr \in {20, 50, 2000}, ht \in BOOLEAN,
      tg \in SeqsUpTo(TagNames, MaxTags) }

NoScore == [done |-> FALSE, num |-> 0, den |-> 1]

-----------------------------------------------------------------------------
(* Store queries *)

Ids(ps) == [i \in 1..Len(ps) |-> ps[i]._id]

\* Query.limit(n); MongoDB treats a limit of 0 as no limit
StoreLimit(s, n) == IF n = 0 THEN s ELSE Slice(s, n)

\* stable sort; before[i, j] is "the comparator puts s[i] strictly before s[j]"
StableSort(s, before) ==
  LET n == Len(s)
      rank(i) == Cardinality({ j \in 1..n :
                    \/ before[j, i]
                    \/ (~before[i, j] /\ j < i) }) + 1
  IN [k \in 1..n |-> s[CHOOSE i \in 1..n : rank(i) = k]]

\* b.score - a.score < 0, on rationals with positive denominators
ScoreBefore(a, b) == a.score.num * b.score.den > b.score.num * a.score.den

\* .sort((a, b) => b.score - a.score)
SortByScore(s) ==
  StableSort(s, [i \in 1..Len(s), j \in 1..Len(s) |-> ScoreBefore(s[i], s[j])])

\* sort({ reviewCount: -1, rating: -1 })
TrendingBefore(a, b) ==
  \/ a.reviewCount > b.reviewCount
  \/ (a.reviewCount = b.reviewCount /\ a.rating > b.rating)

SortTrending(s) ==
  StableSort(s, [i \in 1..Len(s), j \in 1..Len(s) |->
                   TrendingBefore(s[i], s[j])])

\* the ids of a user's viewHistory followed by those of the purchases
UserProductIds(user) == user.viewHistory \o user.purchases

\* User.find({_id: {$ne: userId}, $or: [...$in userProductIds]}).limit(10)
SimilarUsersLimit == 10
SimilarUsers(us, userId, userProductIds) ==
  StoreLimit(
    SelectSeq(UserOrder, LAMBDA v :
      /\ v # userId
      /\ \/ \E x \in Range(us[v].viewHistory) : Includes(userProductIds, x)
         \/ \E x \in Range(us[v].purchases) : Includes(userProductIds, x)),
    SimilarUsersLimit)

\* similarUserProductIds: what the similar users touched and the user has not
SimilarUserProductIds(us, similarUsers, userProductIds) ==
  { x \in UNION { Range(us[similarUsers[i]].viewHistory)
                    \cup Range(us[similarUsers[i]].purchases) :
                  i \in 1..Len(similarUsers) } :
      ~Includes(userProductIds, x) }

\* Product.find({_id: {$in: ids}}).limit(limit)
CollaborativeList(candidateIds, limit) ==
  Ids(StoreLimit(SelectSeq(ProductCollection,
                           LAMBDA p : p._id \in candidateIds), limit))

\* faulty variant: Product.find() without the $nin filter
ContentBasedList_NoExclusion(userProductIds, preferences, limit) ==
  LET scoredProducts == [i \in 1..Len(ProductCollection) |->
                           [product |-> ProductCollection[i],
                            score |-> calculateSimilarityScore(preferences,
                                        ProductCollection[i])]]
      top == Slice(SortByScore(scoredProducts), limit)
  IN [i \in 1..Len(top) |-> top[i].product._id]

\* Product.find({_id: {$nin: userProductIds}}), scored, sorted, sliced
ContentBasedList(userProductIds, preferences, limit) ==
  LET allProducts == SelectSeq(ProductCollection,
                               LAMBDA p : ~Includes(userProductIds, p._id))
      scoredProducts == [i \in 1..Len(allProducts) |->
                           [product |-> allProducts[i],
                            score |-> calculateSimilarityScore(preferences,
                                                               allProducts[i])]]
      sorted == SortByScore(scoredProducts)
      top == Slice(sorted, limit)
  IN [i \in 1..Len(top) |-> top[i].product._id]

\* getTrendingProducts, when the store answers
getTrendingProducts(limit) ==
  Ids(StoreLimit(SortTrending(ProductCollection), limit))

-----------------------------------------------------------------------------
(* The blender of getRecommendations *)

\* one pass of "for (const product of list) if (!seenIds.has(id)) push"
RECURSIVE AddUnseen(_, _)
AddUnseen(combined, list) ==
  IF list = <<>> THEN combined
  ELSE AddUnseen(IF Includes(combined, Head(list)) THEN combined
                 ELSE Append(combined, Head(list)),
                 Tail(list))

\* the trending pass, which also checks combinedRecommendations.length < limit
RECURSIVE AddTrending(_, _, _)
AddTrending(combined, list, limit) ==
  IF list = <<>> THEN combined
  ELSE AddTrending(IF ~Includes(combined, Head(list)) /\ Len(combined) < limit
                   THEN Append(combined, Head(list))
                   ELSE combined,
                   Tail(list), limit)

\* faulty variant: the content-based pass runs before the collaborative pass
Blend_ContentFirst(collaborative, contentBased, trending, limit) ==
  Slice(AddTrending(AddUnseen(AddUnseen(<<>>, contentBased), collaborative),
                    trending, limit),
        limit)

Blend(collaborative, contentBased, trending, limit) ==
  Slice(AddTrending(AddUnseen(AddUnseen(<<>>, collaborative), contentBased),
                    trending, limit),
        limit)

-----------------------------------------------------------------------------
(* The service module's interface and the mutators *)

\* module.exports of recommendationService
ServiceExports ==
  {"getRecommendations", "recordProductView", "recordProductPurchase",
   "updateUserPreferences"}

\* faulty variant: the catch block rethrows
recordProductView_Rethrows(us, userId, productId, ok) ==
  [users |-> IF ok
             THEN [us EXCEPT ![userId].viewHistory = Append(@, productId)]
             ELSE us,
   threw |-> ~ok]

\* faulty variant: the view is put in front of the history instead of pushed
recordProductView_Prepends(us, userId, productId, ok) ==
  [users |-> IF ok
             THEN [us EXCEPT ![userId].viewHistory = <<productId>> \o @]
             ELSE us,
   threw |-> FALSE]

\* User.findByIdAndUpdate inside try/catch: the store after the call, and
\* whether the call threw to its caller.  ok: the store performed the write.
recordProductView(us, userId, productId, ok) ==
  [users |-> IF ok
             THEN [us EXCEPT ![userId].viewHistory = Append(@, productId)]
             ELSE us,
   threw |-> FALSE]

recordProductPurchase(us, userId, productId, ok) ==
  [users |-> IF ok
             THEN [us EXCEPT ![userId].purchases = Append(@, productId)]
             ELSE us,
   threw |-> FALSE]

updateUserPreferences(us, userId, preferences, ok) ==
  [users |-> IF ok THEN [us EXCEPT ![userId].preferences = preferences]
             ELSE us,
   threw |-> FALSE]

-----------------------------------------------------------------------------
(* State *)

\* preferences objects sent to PUT /preferences
PrefChoices ==
  { DefaultPrefs,
    Prefs({"categories", "priceRange", "tags"}, <<"video">>, 0, 100, <<"rock">>) }

\* the User collection when the service starts: both users have viewed p1,
\* and u2 has also purchased p3
InitialUsers ==
  [u \in UserIds |->
     [viewHistory |-> <<"p1">>,
      purchases |-> IF u = "u2" THEN <<"p3">> ELSE <<>>,
      preferences |-> DefaultPrefs]]

TotalHist ==
  LET n(u) == Len(users[u].viewHistory) + Len(users[u].purchases)
  IN n("u1") + n("u2")

IdleGen ==
  [pc |-> "idle", gotUser |-> FALSE, failed |-> FALSE, ids |-> <<>>,
   preferences |-> DefaultPrefs, candidates |-> {}, list |-> <<>>]

StartGen == [IdleGen EXCEPT !.pc = "start"]

NoResult ==
  [status |-> "none", keys |-> {}, recommendations |-> <<>>,
   contentBased |-> <<>>, collaborative |-> <<>>, trending |-> <<>>]

NoResp ==
  [route |-> "none", status |-> 0, message |-> "", storeOk |-> TRUE,
   limit |-> 0, body |-> <<>>]

TypeOK ==
  /\ pc \in {"idle", "anon", "fanout", "done"}
  /\ callUser \in Callers
  /\ callLimit \in 0..MaxLimit
  /\ \A u \in UserIds :
       /\ Range(users[u].viewHistory) \subseteq ProductIds
       /\ Range(users[u].purchases) \subseteq ProductIds
       /\ users[u].preferences \in PrefChoices
  /\ TotalHist <= MaxHist

Init ==
  /\ users = InitialUsers
  /\ pc = "idle"
  /\ callUser = NoUser
  /\ callLimit = 0
  /\ cb = IdleGen
  /\ co = IdleGen
  /\ tr = IdleGen
  /\ result = NoResult
  /\ resp = NoResp
  /\ scoreIn = [preferences |-> DefaultPrefs, product |-> ProductCollection[1]]
  /\ scoreOut = NoScore

-----------------------------------------------------------------------------
(* getRecommendations *)

Done(g, list) == [g EXCEPT !.pc = "done", !.list = list]
Failed(g) == [g EXCEPT !.pc = "done", !.failed = TRUE, !.list = <<>>]

\* entry: the anonymous branch, or the Promise.all fan-out
GetRecommendations(userId, limit) ==
  /\ pc = "idle"
  /\ callUser' = userId
  /\ callLimit' = limit
  /\ result' = NoResult
  /\ IF userId = NoUser
     THEN /\ pc' = "anon"
          /\ cb' = IdleGen /\ co' = IdleGen /\ tr' = StartGen
     ELSE /\ pc' = "fanout"
          /\ cb' = StartGen /\ co' = StartGen /\ tr' = StartGen
  /\ UNCHANGED <<users, resp, scoreVars>>

\* faulty variant: the anonymous branch asks for a third of the limit, as the
\* fan-out does
AnonTrending_ThirdOfLimit(ok) ==
  /\ pc = "anon"
  /\ LET trending == IF ok THEN getTrendingProducts(callLimit \div 3) ELSE <<>>
     IN /\ tr' = IF ok THEN Done(tr, trending) ELSE Failed(tr)
        /\ result' = [NoResult EXCEPT !.status = "resolved",
                                      !.keys = {"recommendations", "trending"},
                                      !.recommendations = trending,
                                      !.trending = trending]
  /\ pc' = "done"
  /\ UNCHANGED <<users, callUser, callLimit, cb, co, resp, scoreVars>>

\* if (!userId): await getTrendingProducts(limit); return
AnonTrending(ok) ==
  /\ pc = "anon"
  /\ LET trending == IF ok THEN getTrendingProducts(callLimit) ELSE <<>>
     IN /\ tr' = IF ok THEN Done(tr, trending) ELSE Failed(tr)
        /\ result' = [NoResult EXCEPT !.status = "resolved",
                                      !.keys = {"recommendations", "trending"},
                                      !.recommendations = trending,
                                      !.trending = trending]
  /\ pc' = "done"
  /\ UNCHANGED <<users, callUser, callLimit, cb, co, resp, scoreVars>>

\* getContentBasedRecommendations: await User.findById(userId); preferences is
\* a nested path of the schema, so a user document always has it
CBFindUser(ok) ==
  /\ pc = "fanout" /\ cb.pc = "start"
  /\ cb' = IF ~ok THEN Failed(cb)
           ELSE IF callUser \notin UserIds THEN Done(cb, <<>>)
           ELSE [cb EXCEPT !.pc = "user", !.gotUser = TRUE,
                           !.ids = UserProductIds(users[callUser]),
                           !.preferences = users[callUser].preferences]
  /\ UNCHANGED <<users, pc, callUser, callLimit, co, tr, result, resp, scoreVars>>

\* getContentBasedRecommendations: await Product.find($nin), score, sort, slice
CBFindProducts(ok) ==
  /\ pc = "fanout" /\ cb.pc = "user"
  /\ cb' = IF ~ok THEN Failed(cb)
           ELSE Done(cb, ContentBasedList(cb.ids, cb.preferences, callLimit \div 2))
  /\ UNCHANGED <<users, pc, callUser, callLimit, co, tr, result, resp, scoreVars>>

\* getCollaborativeRecommendations: await User.findById(userId)
COFindUser(ok) ==
  /\ pc = "fanout" /\ co.pc = "start"
  /\ co' = IF ~ok THEN Failed(co)
           ELSE IF callUser \notin UserIds THEN Done(co, <<>>)
           ELSE [co EXCEPT !.pc = "user", !.gotUser = TRUE,
                           !.ids = UserProductIds(users[callUser])]
  /\ UNCHANGED <<users, pc, callUser, callLimit, cb, tr, result, resp, scoreVars>>

\* getCollaborativeRecommendations: await User.find(similar).limit(10), then
\* the loop that fills similarUserProductIds
COFindSimilar(ok) ==
  /\ pc = "fanout" /\ co.pc = "user"
  /\ co' = IF ~ok THEN Failed(co)
           ELSE [co EXCEPT !.pc = "similar",
                           !.candidates =
                              SimilarUserProductIds(users,
                                SimilarUsers(users, callUser, co.ids), co.ids)]
  /\ UNCHANGED <<users, pc, callUser, callLimit, cb, tr, result, resp, scoreVars>>

\* getCollaborativeRecommendations: await Product.find($in).limit(limit)
COFindProducts(ok) ==
  /\ pc = "fanout" /\ co.pc = "similar"
  /\ co' = IF ~ok THEN Failed(co)
           ELSE Done(co, CollaborativeList(co.candidates, callLimit \div 2))
  /\ UNCHANGED <<users, pc, callUser, callLimit, cb, tr, result, resp, scoreVars>>

\* getTrendingProducts inside the fan-out
TRFind(ok) ==
  /\ pc = "fanout" /\ tr.pc = "start"
  /\ tr' = IF ~ok THEN Failed(tr)
           ELSE Done(tr, getTrendingProducts(callLimit \div 3))
  /\ UNCHANGED <<users, pc, callUser, callLimit, cb, co, result, resp, scoreVars>>

\* faulty variant: a failed generator makes the whole call return the all-empty shape
BlendResults_AllEmptyOnFailure ==
  /\ pc = "fanout"
  /\ cb.pc = "done" /\ co.pc = "done" /\ tr.pc = "done"
  /\ result' = IF cb.failed \/ co.failed \/ tr.failed
               THEN [NoResult EXCEPT !.status = "resolved",
                                     !.keys = {"recommendations", "contentBased",
                                               "collaborative", "trending"}]
               ELSE [status |-> "resolved",
                     keys |-> {"recommendations", "contentBased",
                               "collaborative", "trending"},
                     recommendations |->
                       Blend(co.list, cb.list, tr.list, callLimit),
                     contentBased |-> cb.list,
                     collaborative |-> co.list,
                     trending |-> tr.list]
  /\ pc' = "done"
  /\ UNCHANGED <<users, callUser, callLimit, cb, co, tr, resp, scoreVars>>

\* faulty variant: a failed generator makes the whole call reject
BlendResults_Rejects ==
  /\ pc = "fanout"
  /\ cb.pc = "done" /\ co.pc = "done" /\ tr.pc = "done"
  /\ result' = IF cb.failed \/ co.failed \/ tr.failed
               THEN [NoResult EXCEPT !.status = "rejected"]
               ELSE [status |-> "resolved",
                     keys |-> {"recommendations", "contentBased",
                               "collaborative", "trending"},
                     recommendations |->
                       Blend(co.list, cb.list, tr.list, callLimit),
                     contentBased |-> cb.list,
                     collaborative |-> co.list,
                     trending |-> tr.list]
  /\ pc' = "done"
  /\ UNCHANGED <<users, callUser, callLimit, cb, co, tr, resp, scoreVars>>

\* Promise.all resolved: combine, de-duplicate, return
BlendResults ==
  /\ pc = "fanout"
  /\ cb.pc = "done" /\ co.pc = "done" /\ tr.pc = "done"
  /\ result' = [status |-> "resolved",
                keys |-> {"recommendations", "contentBased", "collaborative",
                          "trending"},
                recommendations |-> Blend(co.list, cb.list, tr.list, callLimit),
                contentBased |-> cb.list,
                collaborative |-> co.list,
                trending |-> tr.list]
  /\ pc' = "done"
  /\ UNCHANGED <<users, callUser, callLimit, cb, co, tr, resp, scoreVars>>

\* the caller has taken the result; the next call may start
Return ==
  /\ pc = "done"
  /\ pc' = "idle"
  /\ callUser' = NoUser
  /\ callLimit' = 0
  /\ cb' = IdleGen /\ co' = IdleGen /\ tr' = IdleGen
  /\ result' = NoResult
  /\ UNCHANGED <<users, resp, scoreVars>>

-----------------------------------------------------------------------------
(* The mutators called on the service module *)

RecordProductView(userId, productId, ok) ==
  /\ ok => TotalHist < MaxHist
  /\ users' = recordProductView(users, userId, productId, ok).users
  /\ UNCHANGED <<callVars, resp, scoreVars>>

RecordProductPurchase(userId, productId, ok) ==
  /\ ok => TotalHist < MaxHist
  /\ users' = recordProductPurchase(users, userId, productId, ok).users
  /\ UNCHANGED <<callVars, resp, scoreVars>>

UpdateUserPreferences(userId, preferences, ok) ==
  /\ users' = updateUserPreferences(users, userId, preferences, ok).users
  /\ UNCHANGED <<callVars, resp, scoreVars>>

-----------------------------------------------------------------------------
(* Routes *)

MutatorResp(route, r, ok, okMessage, errMessage) ==
  [NoResp EXCEPT !.route = route,
                 !.status = IF r.threw THEN 500 ELSE 200,
                 !.message = IF r.threw THEN errMessage ELSE okMessage,
                 !.storeOk = ok]

\* POST /view/:productId
ViewRoute(userId, productId, ok) ==
  /\ ok => TotalHist < MaxHist
  /\ LET r == recordProductView(users, userId, productId, ok)
     IN /\ users' = r.users
        /\ resp' = MutatorResp("view", r, ok, "View recorded",
                               "Error recording view")
  /\ UNCHANGED <<callVars, scoreVars>>

\* POST /purchase/:productId
PurchaseRoute(userId, productId, ok) ==
  /\ ok => TotalHist < MaxHist
  /\ LET r == recordProductPurchase(users, userId, productId, ok)
     IN /\ users' = r.users
        /\ resp' = MutatorResp("purchase", r, ok, "Purchase recorded",
                               "Error recording purchase")
  /\ UNCHANGED <<callVars, scoreVars>>

\* PUT /preferences
PreferencesRoute(userId, preferences, ok) ==
  /\ LET r == updateUserPreferences(users, userId, preferences, ok)
     IN /\ users' = r.users
        /\ resp' = MutatorResp("preferences", r, ok, "Preferences updated",
                               "Error updating preferences")
  /\ UNCHANGED <<callVars, scoreVars>>

\* parseInt(req.query.limit) || 5
TrendingDefaultLimit == 5

\* GET /trending: recommendationService.getTrendingProducts(limit) throws a
\* TypeError when the service module does not export that name
TrendingRoute(limit, ok) ==
  /\ resp' = IF "getTrendingProducts" \in ServiceExports
             THEN [NoResp EXCEPT !.route = "trending", !.status = 200,
                                 !.storeOk = ok, !.limit = limit,
                                 !.body = IF ok THEN getTrendingProducts(limit)
                                          ELSE <<>>]
             ELSE [NoResp EXCEPT !.route = "trending", !.status = 500,
                                 !.message = "Error fetching trending products",
                                 !.storeOk = ok, !.limit = limit]
  /\ UNCHANGED <<users, callVars, scoreVars>>

-----------------------------------------------------------------------------
(* Specifications *)

Next ==
  \/ \E u \in Callers, l \in 1..MaxLimit : GetRecommendations(u, l)
  \/ \E ok \in BOOLEAN : AnonTrending(ok)
  \/ \E ok \in BOOLEAN : CBFindUser(ok)
  \/ \E ok \in BOOLEAN : CBFindProducts(ok)
  \/ \E ok \in BOOLEAN : COFindUser(ok)
  \/ \E ok \in BOOLEAN : COFindSimilar(ok)
  \/ \E ok \in BOOLEAN : COFindProducts(ok)
  \/ \E ok \in BOOLEAN : TRFind(ok)
  \/ BlendResults
  \/ Return
  \/ \E u \in UserIds, p \in ProductIds, ok \in BOOLEAN :
       RecordProductView(u, p, ok)
  \/ \E u \in UserIds, p \in ProductIds, ok \in BOOLEAN :
       RecordProductPurchase(u, p, ok)
  \/ \E pr \in PrefChoices, ok \in BOOLEAN : UpdateUserPreferences(Me, pr, ok)

Spec == Init /\ [][Next]_vars

\* the HTTP routes over the service
NextRoutes ==
  \/ \E u \in UserIds, p \in ProductIds, ok \in BOOLEAN : ViewRoute(u, p, ok)
  \/ \E u \in UserIds, p \in ProductIds, ok \in BOOLEAN : PurchaseRoute(u, p, ok)
  \/ \E pr \in PrefChoices, ok \in BOOLEAN : PreferencesRoute(Me, pr, ok)
  \/ \E l \in (1..MaxLimit) \cup {TrendingDefaultLimit}, ok \in BOOLEAN :
       TrendingRoute(l, ok)

SpecRoutes == Init /\ [][NextRoutes]_vars

\* the scorer applied to inputs drawn from PrefSpace x ProductSpace
InitScore ==
  /\ Init!1 /\ Init!2 /\ Init!3 /\ Init!4 /\ Init!5 /\ Init!6 /\ Init!7
  /\ Init!8 /\ Init!9
  /\ scoreIn \in [preferences : PrefSpace, product : ProductSpace]
  /\ scoreOut = NoScore

ApplyScore ==
  /\ ~scoreOut.done
  /\ LET s == calculateSimilarityScore(scoreIn.preferences, scoreIn.product)
     IN scoreOut' = [done |-> TRUE, num |-> s.num, den |-> s.den]
  /\ UNCHANGED <<users, callVars, resp, scoreIn>>

NextScore == ApplyScore

SpecScore == InitScore /\ [][NextScore]_vars

-----------------------------------------------------------------------------
(* Properties *)

\* first occurrence of every element, in order
RECURSIVE Dedup(_)
Dedup(s) ==
  IF s = <<>> THEN <<>>
  ELSE <<Head(s)>> \o Dedup(SelectSeq(Tail(s), LAMBDA x : x # Head(s)))

NoRepeats(s) == \A i, j \in 1..Len(s) : s[i] = s[j] => i = j

LoggedInDone == pc = "done" /\ callUser # NoUser

FourKeys == {"recommendations", "contentBased", "collaborative", "trending"}

\* C1: for a logged-in user the recommendations are the first `limit`
\* elements of the de-duplicated concatenation collaborative ++ contentBased
\* ++ trending: no repeated id, at most `limit` elements, collaborative
\* products before content-based-only ones before trending-only ones.
C1_BlendIsPrefixOfDedup ==
  LoggedInDone =>
    LET r == result.recommendations
        inCo(x) == Includes(result.collaborative, x)
        inCb(x) == Includes(result.contentBased, x)
    IN /\ r = Slice(Dedup(result.collaborative \o result.contentBased
                          \o result.trending), callLimit)
       /\ NoRepeats(r)
       /\ Len(r) <= callLimit
       /\ \A i, j \in 1..Len(r) :
            /\ (inCo(r[i]) /\ ~inCo(r[j])) => i < j
            /\ (inCb(r[i]) /\ ~inCo(r[j]) /\ ~inCb(r[j])) => i < j

\* a blend in which all three strategies contribute, a product is named by
\* two strategies, and the limit cuts the merged list
C1_Witness ==
  /\ LoggedInDone
  /\ result.collaborative # <<>>
  /\ \E x \in Range(result.contentBased) : ~Includes(result.collaborative, x)
  /\ \E x \in Range(result.trending) : Includes(result.collaborative, x)
  /\ Len(Dedup(result.collaborative \o result.contentBased \o result.trending))
       > callLimit
  /\ Len(result.recommendations) = callLimit

\* C3: no product of the history a generator read for the user appears in
\* the contentBased or collaborative list it returns, whatever its score and
\* however many neighbours touched it.
C3_HistoryExcluded ==
  /\ \A x \in Range(cb.ids) : ~Includes(cb.list, x)
  /\ \A x \in Range(co.ids) : ~Includes(co.list, x)
  /\ LoggedInDone =>
       /\ \A x \in Range(cb.ids) : ~Includes(result.contentBased, x)
       /\ \A x \in Range(co.ids) : ~Includes(result.collaborative, x)

\* both lists are non-empty although a product of the history would have
\* ranked in the content-based list and a neighbour has touched it
C3_Witness ==
  /\ LoggedInDone
  /\ result.contentBased # <<>> /\ result.collaborative # <<>>
  /\ \E x \in Range(cb.ids) :
       Includes(ContentBasedList(<<>>, cb.preferences, callLimit \div 2), x)
  /\ \E x \in Range(co.ids) : \E v \in UserIds \ {callUser} :
       x \in Range(users[v].viewHistory)

\* C4: without a userId the result has exactly the keys recommendations and
\* trending, both the trending list for the full limit, and neither the
\* content-based nor the collaborative generator has been started.
C4_AnonymousIsTrendingOnly ==
  (pc = "done" /\ callUser = NoUser) =>
    /\ result.status = "resolved"
    /\ result.keys = {"recommendations", "trending"}
    /\ result.recommendations = result.trending
    /\ result.trending = (IF tr.failed THEN <<>>
                          ELSE getTrendingProducts(callLimit))
    /\ cb.pc = "idle" /\ co.pc = "idle"

C4_Witness ==
  /\ pc = "done" /\ callUser = NoUser /\ ~tr.failed
  /\ callLimit >= 2
  /\ Len(result.recommendations) = callLimit

\* what each generator returns from what it read when the store answers
ExpectedContentBased ==
  IF cb.gotUser THEN ContentBasedList(cb.ids, cb.preferences, callLimit \div 2)
  ELSE <<>>
ExpectedCollaborative ==
  IF co.gotUser THEN CollaborativeList(co.candidates, callLimit \div 2)
  ELSE <<>>
ExpectedTrending == getTrendingProducts(callLimit \div 3)

AnyFailed == cb.failed \/ co.failed \/ tr.failed

\* C7: a store error inside one generator empties only that generator's
\* list: the others' lists are returned unchanged under their own keys and
\* blended, and the call resolves.
C7_FailureIsolated ==
  (LoggedInDone /\ AnyFailed) =>
    /\ result.status = "resolved"
    /\ result.keys = FourKeys
    /\ result.contentBased = (IF cb.failed THEN <<>> ELSE ExpectedContentBased)
    /\ result.collaborative = (IF co.failed THEN <<>> ELSE ExpectedCollaborative)
    /\ result.trending = (IF tr.failed THEN <<>> ELSE ExpectedTrending)
    /\ result.recommendations =
         Blend(result.collaborative, result.contentBased, result.trending,
               callLimit)

\* the content-based generator failed, the other two delivered
C7_Witness ==
  /\ LoggedInDone
  /\ cb.failed /\ ~co.failed /\ ~tr.failed
  /\ result.contentBased = <<>>
  /\ result.collaborative # <<>> /\ result.trending # <<>>
  /\ Len(result.recommendations) >= 2

AllEmpty ==
  /\ result.recommendations = <<>> /\ result.contentBased = <<>>
  /\ result.collaborative = <<>> /\ result.trending = <<>>

\* C8 as stated: whenever a generator fails during a call for a logged-in
\* user, the response is the four-empty-array shape.
C8_AnyFailureAllEmpty ==
  (LoggedInDone /\ AnyFailed) =>
    (result.status = "resolved" /\ result.keys = FourKeys /\ AllEmpty)

\* C8 amended: a failing generator never makes the call reject; its own
\* list is empty, and the response is all-empty exactly when the other
\* generators' lists are empty too.
C8_FailureDegradesOwnList ==
  (pc = "done" /\ AnyFailed) =>
    /\ result.status = "resolved"
    /\ cb.failed => result.contentBased = <<>>
    /\ co.failed => result.collaborative = <<>>
    /\ tr.failed => result.trending = <<>>
    /\ callUser # NoUser =>
         /\ result.keys = FourKeys
         /\ AllEmpty <=> (cb.list = <<>> /\ co.list = <<>> /\ tr.list = <<>>)
    /\ callUser = NoUser => result.recommendations = <<>>

\* the trending generator failed after reading nothing, and the response
\* still recommends products
C8_Witness ==
  /\ LoggedInDone
  /\ tr.failed
  /\ result.trending = <<>>
  /\ result.recommendations # <<>>

\* s is the history as it was at an earlier time: a prefix of the views
\* followed by a prefix of the purchases
EarlierHistory(s, user) ==
  \E k \in 0..Len(user.viewHistory), m \in 0..Len(user.purchases) :
    s = SubSeq(user.viewHistory, 1, k) \o SubSeq(user.purchases, 1, m)

BothReadUser == cb.gotUser /\ co.gotUser

\* C10 as stated: the two generators of one call exclude the same history
\* set.
C10_SameHistorySet ==
  (LoggedInDone /\ BothReadUser) => Range(cb.ids) = Range(co.ids)

\* C10 amended: each generator excludes the history it read itself; both
\* are earlier states of the user's current history and one contains the
\* other, and the products of the smaller one are in neither list.
C10_SnapshotsAreEarlierHistories ==
  BothReadUser =>
    /\ EarlierHistory(cb.ids, users[callUser])
    /\ EarlierHistory(co.ids, users[callUser])
    /\ Range(cb.ids) \subseteq Range(co.ids)
       \/ Range(co.ids) \subseteq Range(cb.ids)
    /\ \A x \in Range(cb.ids) \cap Range(co.ids) :
         ~Includes(cb.list, x) /\ ~Includes(co.list, x)

\* a product the collaborative generator saw in the history is recommended
\* by the content-based generator, which read the history before the view
C10_Witness ==
  /\ LoggedInDone /\ BothReadUser
  /\ \E x \in Range(co.ids) \ Range(cb.ids) : Includes(result.contentBased, x)

\* C2: GET /trending answers 200 with the trending list for its limit when
\* the store is healthy.
C2_TrendingRouteAnswers ==
  (resp.route = "trending" /\ resp.storeOk) =>
    /\ resp.status = 200
    /\ resp.body = getTrendingProducts(resp.limit)

\* C9: the three mutator routes answer 200 with their success message
\* whether or not the store write succeeded, and a failed write leaves the
\* users unchanged.
C9_MutatorsSwallowStoreErrors ==
  [][ \A ok \in BOOLEAN :
        /\ \A u \in UserIds, p \in ProductIds :
             /\ ViewRoute(u, p, ok) =>
                  /\ resp'.status = 200 /\ resp'.message = "View recorded"
                  /\ ~ok => users' = users
             /\ PurchaseRoute(u, p, ok) =>
                  /\ resp'.status = 200 /\ resp'.message = "Purchase recorded"
                  /\ ~ok => users' = users
        /\ \A u \in UserIds, pr \in PrefChoices :
             PreferencesRoute(u, pr, ok) =>
               /\ resp'.status = 200 /\ resp'.message = "Preferences updated"
               /\ ~ok => users' = users ]_vars

\* a view whose write failed was answered 200 and the store is as it started
C9_Witness ==
  /\ resp.route = "view" /\ ~resp.storeOk
  /\ resp.status = 200 /\ resp.message = "View recorded"
  /\ users = InitialUsers

\* the criteria the scorer applies to scoreIn
CategoryApplies ==
  /\ "categories" \in scoreIn.preferences.has
  /\ scoreIn.preferences.categories # <<>>
PriceApplies == "priceRange" \in scoreIn.preferences.has
TagsApply ==
  /\ "tags" \in scoreIn.preferences.has
  /\ scoreIn.preferences.tags # <<>>
  /\ scoreIn.product.hasTags

\* C5: the score lies in [0, 1] for every preferences object and product.
C5_ScoreInUnitInterval ==
  scoreOut.done => (0 <= scoreOut.num /\ scoreOut.num <= scoreOut.den)

\* C6: with no applicable criterion the score is 0; with the category list
\* as the only applicable criterion it is 1 when the product's category is
\* in the list and 0 otherwise.
C6_NormalisedOverApplicable ==
  scoreOut.done =>
    /\ (~CategoryApplies /\ ~PriceApplies /\ ~TagsApply) => scoreOut.num = 0
    /\ (CategoryApplies /\ ~PriceApplies /\ ~TagsApply) =>
         IF scoreIn.product.category \in Range(scoreIn.preferences.categories)
         THEN scoreOut.num = scoreOut.den
         ELSE scoreOut.num = 0

C6_Witness ==
  /\ scoreOut.done
  /\ CategoryApplies /\ ~PriceApplies /\ ~TagsApply
  /\ scoreIn.product.category \in Range(scoreIn.preferences.categories)
  /\ scoreOut.num = scoreOut.den

=============================================================================
